---- MODULE Spec2Model ----
(***************************************************************************)
(* g3k: parallel search for an OpenPGP key whose fingerprint ends with a   *)
(* chosen suffix (src/src/main.rs).  The coordinator (main) spawns         *)
(* `threads` workers that share one unbounded channel; each worker loops   *)
(* Builder::new / backflow / gen / fingerprint / ends_with / send.         *)
(* Strings are sequences of one-character strings; times are whole seconds.*)
(***************************************************************************)
EXTENDS Integers, Sequences, FiniteSets, TLC

\* ------------------------------------------------------------- bounds
MaxThreads == 2      \* --threads is drawn from 0..MaxThreads
MaxBackflowArg == 2  \* --max-backflow is drawn from 0..MaxBackflowArg
MaxIter == 2         \* a worker starts at most MaxIter loop iterations
MaxTicks == 1        \* the wall clock advances at most MaxTicks seconds
MaxSuffixLen == 3    \* the suffix argument has at most MaxSuffixLen characters

\* ------------------------------------------------------------- data
Workers == 1..MaxThreads

\* Option<T>: None is the empty sequence, Some(x) the one-element sequence.
None == <<>>
Some(x) == <<x>>

\* The second at which the run starts (Utc::now() of the first reading).
StartTime == 100

\* The uid argument (CliArgs.uid, default "G3K").
Uid == "G3K"

\* Characters the suffix argument is drawn from.
SuffixChars == {"a", "B"}

\* Suffix arguments: every string over SuffixChars up to MaxSuffixLen long.
SuffixArgs == UNION {[1..n -> SuffixChars] : n \in 0..MaxSuffixLen}

\* Fingerprint bytes a generated key can have (0x1a, 0xab).
KeyFingerprints == {<<26>>, <<171>>}

\* char::to_lowercase for the characters in use.
ToLowerChar(c) ==
    CASE c = "A" -> "a"
      [] c = "B" -> "b"
      [] c = "C" -> "c"
      [] c = "D" -> "d"
      [] c = "E" -> "e"
      [] c = "F" -> "f"
      [] OTHER -> c

\* Mutant of to_lowercase: the suffix is used as typed.
as_typed(s) == s

\* str::to_lowercase
to_lowercase(s) == [i \in 1..Len(s) |-> ToLowerChar(s[i])]

\* hex::ToHex: the table of lowercase hex digits.
HexDigits == <<"0", "1", "2", "3", "4", "5", "6", "7",
               "8", "9", "a", "b", "c", "d", "e", "f">>

\* encode_hex: two lowercase digits per byte, high nibble first.
encode_hex(bytes) ==
    [i \in 1..(2 * Len(bytes)) |->
        LET b == bytes[(i + 1) \div 2]
        IN  IF i % 2 = 1 THEN HexDigits[(b \div 16) + 1]
                         ELSE HexDigits[(b % 16) + 1]]

\* Mutant of ends_with: the pattern is compared with the start of s.
starts_with(s, pat) ==
    /\ Len(pat) <= Len(s)
    /\ SubSeq(s, 1, Len(pat)) = pat

\* str::ends_with(&str): the last Len(pat) characters equal pat.
ends_with(s, pat) ==
    /\ Len(pat) <= Len(s)
    /\ SubSeq(s, Len(s) - Len(pat) + 1, Len(s)) = pat

\* ------------------------------------------------------------- Builder
\* Builder::new: the key-parameter builder for uid, ct = Utc::now(), no key.
Builder_new(uid, t) ==
    [uid |-> uid, kb_created_at |-> None, ct |-> t, k |-> None]

\* Mutant of Builder_backflow: the second is added instead of subtracted.
Builder_forwardflow(b) == [b EXCEPT !.ct = @ + 1]

\* Builder::backflow: creation time one second back.
Builder_backflow(b) == [b EXCEPT !.ct = @ - 1]

\* Mutant of Builder_gen: created_at(self.ct) is left out, so the key is built
\* with the creation time the parameter builder already held.
Builder_gen_stale(b, bytes) ==
    [b EXCEPT !.k = Some([fingerprint |-> bytes,
                          created_at |-> IF b.kb_created_at = None
                                         THEN b.ct + 1
                                         ELSE b.kb_created_at[1],
                          uid |-> b.uid])]

\* Builder::gen, Ok arm: created_at(self.ct), build, generate; the key made
\* carries the creation time and uid it was built with.
Builder_gen(b, bytes) ==
    [b EXCEPT !.kb_created_at = Some(b.ct),
              !.k = Some([fingerprint |-> bytes, created_at |-> b.ct,
                          uid |-> b.uid])]

\* Builder::gen, error arms (build() or generate() failed): created_at was
\* already set, the key is left as it was.
Builder_gen_err(b) == [b EXCEPT !.kb_created_at = Some(b.ct)]

\* Mutant of Builder_fingerprint: without a key the empty text is returned
\* as Ok.
Builder_fingerprint_or_empty(b) ==
    IF b.k = None
    THEN [ok |-> TRUE, val |-> <<>>]
    ELSE [ok |-> TRUE, val |-> encode_hex(b.k[1].fingerprint)]

\* Builder::fingerprint: Ok(lowercase hex of the key's fingerprint) or Err.
Builder_fingerprint(b) ==
    IF b.k = None
    THEN [ok |-> FALSE, val |-> <<>>]
    ELSE [ok |-> TRUE, val |-> encode_hex(b.k[1].fingerprint)]

\* Builder::armored: unwrap() panics when there is no key; otherwise the key
\* is signed and armored, and either step can return an error.
Builder_armored(b, signed) ==
    IF b.k = None THEN "panic"
    ELSE IF signed THEN "ok"
    ELSE "err"

\* ------------------------------------------------------------- state
VARIABLES
    args,        \* CliArgs: threads, max_backflow, suffix (as typed)
    suffix,      \* main's `suffix`: args.suffix lowercased
    now,         \* the wall clock read by Utc::now()
    chan,        \* the unbounded channel: Results sent and not yet received
    senders,     \* live Sender handles (main's and one per running worker)
    rxAlive,     \* the Receiver has not been dropped
    cpc,         \* main's position
    spawned,     \* workers spawned so far by main's for loop
    result,      \* main's `result` (the received Builder) or None
    rIterations, \* main's `iterations` (the received count) or None
    total,       \* the number printed as "approx. N iterations" or None
    shownFp,     \* the fingerprint printed by main or None
    wpc,         \* each worker's position
    builder,     \* each worker's `builder`
    backflow,    \* each worker's `backflow`
    iterations,  \* each worker's `iterations`
    fp,          \* each worker's `fp` of the current iteration
    sent,        \* history: every Result ever sent, in channel order
    tested,      \* history: candidates each worker has tested
    anchor       \* history: Utc::now() read by each worker's last Builder::new

vars == <<args, suffix, now, chan, senders, rxAlive, cpc, spawned, result,
          rIterations, total, shownFp, wpc, builder, backflow, iterations,
          fp, sent, tested, anchor>>

mainVars == <<cpc, spawned, result, rIterations, total, shownFp>>
workerVars == <<wpc, builder, backflow, iterations, fp, tested, anchor>>
argVars == <<args, suffix>>

\* The state when main has parsed its arguments, lowercased the suffix and
\* created the channel (lines 98-102); no worker exists yet.
Init ==
    /\ args \in [threads : 0..MaxThreads,
                 max_backflow : 0..MaxBackflowArg,
                 suffix : SuffixArgs]
    /\ suffix = to_lowercase(args.suffix)
    /\ now = StartTime
    /\ chan = <<>>
    /\ senders = 1
    /\ rxAlive = TRUE
    /\ cpc = "spawn"
    /\ spawned = 0
    /\ result = None
    /\ rIterations = None
    /\ total = None
    /\ shownFp = None
    /\ wpc = [w \in Workers |-> "unspawned"]
    /\ builder = [w \in Workers |-> None]
    /\ backflow = [w \in Workers |-> 0]
    /\ iterations = [w \in Workers |-> 0]
    /\ fp = [w \in Workers |-> None]
    /\ sent = <<>>
    /\ tested = [w \in Workers |-> 0]
    /\ anchor = [w \in Workers |-> None]

\* The wall clock moves on by a second.
Tick ==
    /\ now < StartTime + MaxTicks
    /\ now' = now + 1
    /\ UNCHANGED <<argVars, chan, senders, rxAlive, mainVars, workerVars, sent>>

\* ------------------------------------------------------------- main
\* One pass of `for _ in 0..args.threads`: clone the sender, spawn a worker
\* whose closure starts with iterations = 0.
Spawn ==
    /\ cpc = "spawn"
    /\ spawned < args.threads
    /\ spawned' = spawned + 1
    /\ senders' = senders + 1
    /\ wpc' = [wpc EXCEPT ![spawned + 1] = "anchor"]
    /\ iterations' = [iterations EXCEPT ![spawned + 1] = 0]
    /\ UNCHANGED <<argVars, now, chan, rxAlive, cpc, result, rIterations,
                   total, shownFp, builder, backflow, fp, sent, tested, anchor>>

\* The for loop ends; main goes on to receiver.recv().
SpawnDone ==
    /\ cpc = "spawn"
    /\ spawned >= args.threads
    /\ cpc' = "recv"
    /\ UNCHANGED <<argVars, now, chan, senders, rxAlive, spawned, result,
                   rIterations, total, shownFp, workerVars, sent>>

\* Mutant of Recv: the newest Result is taken instead of the oldest.
Recv_newest ==
    /\ cpc = "recv"
    /\ chan # <<>>
    /\ result' = Some(chan[Len(chan)].builder)
    /\ rIterations' = Some(chan[Len(chan)].iterations)
    /\ chan' = SubSeq(chan, 1, Len(chan) - 1)
    /\ cpc' = "report"
    /\ UNCHANGED <<argVars, now, senders, rxAlive, spawned, total, shownFp,
                   workerVars, sent>>

\* receiver.recv()?: blocks while the channel is empty and a Sender lives;
\* takes the oldest Result, or fails once empty with every Sender dropped.
Recv ==
    /\ cpc = "recv"
    /\ (chan # <<>> \/ senders = 0)
    /\ IF chan # <<>>
       THEN /\ result' = Some(Head(chan).builder)
            /\ rIterations' = Some(Head(chan).iterations)
            /\ chan' = Tail(chan)
            /\ cpc' = "report"
       ELSE /\ cpc' = "err"
            /\ UNCHANGED <<result, rIterations, chan>>
    /\ UNCHANGED <<argVars, now, senders, rxAlive, spawned, total, shownFp,
                   workerVars, sent>>

\* Mutant of Report: the received count is printed without the factor.
Report_unscaled ==
    /\ cpc = "report"
    /\ total' = Some(rIterations[1])
    /\ shownFp' = Some(Builder_fingerprint(result[1]).val)
    /\ cpc' = "export"
    /\ UNCHANGED <<argVars, now, chan, senders, rxAlive, spawned, result,
                   rIterations, workerVars, sent>>

\* The two println! after recv: iterations * args.threads, then
\* result.fingerprint()?.
Report ==
    /\ cpc = "report"
    /\ total' = Some(rIterations[1] * args.threads)
    /\ LET f == Builder_fingerprint(result[1])
       IN  IF f.ok
           THEN /\ shownFp' = Some(f.val)
                /\ cpc' = "export"
           ELSE /\ cpc' = "err"
                /\ UNCHANGED shownFp
    /\ UNCHANGED <<argVars, now, chan, senders, rxAlive, spawned, result,
                   rIterations, workerVars, sent>>

\* Mutant of Finish: main joins the workers before it returns.
Finish_joining ==
    /\ cpc = "export"
    /\ \A w \in Workers : wpc[w] \in {"unspawned", "failed"}
    /\ cpc' = "done"
    /\ rxAlive' = FALSE
    /\ senders' = senders - 1
    /\ UNCHANGED <<argVars, now, chan, spawned, result, rIterations, total,
                   shownFp, workerVars, sent>>

\* result.armored()? is printed or written and main leaves its body, with
\* Ok(()), with the error of armored() or of the write, or by the panic of
\* unwrap(): in each case its Sender and the Receiver are dropped.
Finish ==
    /\ cpc = "export"
    /\ \E signed \in BOOLEAN :
         LET a == Builder_armored(result[1], signed)
         IN  cpc' = IF a = "ok" THEN "done"
                    ELSE IF a = "err" THEN "err"
                    ELSE "panicked"
    /\ rxAlive' = FALSE
    /\ senders' = senders - 1
    /\ UNCHANGED <<argVars, now, chan, spawned, result, rIterations, total,
                   shownFp, workerVars, sent>>

\* main has returned (or panicked): the process exits and every thread still
\* running ends with it.
Exit ==
    /\ cpc \in {"done", "err", "panicked"}
    /\ cpc' = "exited"
    /\ wpc' = [w \in Workers |->
                 IF wpc[w] \in {"unspawned", "failed"} THEN wpc[w] ELSE "killed"]
    /\ UNCHANGED <<argVars, now, chan, senders, rxAlive, spawned, result,
                   rIterations, total, shownFp, builder, backflow, iterations,
                   fp, sent, tested, anchor>>

\* ------------------------------------------------------------- worker
\* The worker's thread ends with an error: its closure, and the Sender the
\* closure owns, are dropped.
Fail(w) ==
    /\ wpc' = [wpc EXCEPT ![w] = "failed"]
    /\ senders' = senders - 1

\* Mutant of Anchor: `iterations` is declared inside the loop and starts
\* over with every Candidate.
Anchor_recount(w) ==
    /\ wpc[w] = "anchor"
    /\ builder' = [builder EXCEPT ![w] = Some(Builder_new(Uid, now))]
    /\ anchor' = [anchor EXCEPT ![w] = Some(now)]
    /\ backflow' = [backflow EXCEPT ![w] = 0]
    /\ iterations' = [iterations EXCEPT ![w] = 0]
    /\ wpc' = [wpc EXCEPT ![w] = "while"]
    /\ UNCHANGED <<argVars, now, chan, senders, rxAlive, mainVars, fp, sent,
                   tested>>

\* Top of `loop`: builder = Builder::new(&args.uid), backflow = 0.
Anchor(w) ==
    /\ wpc[w] = "anchor"
    /\ builder' = [builder EXCEPT ![w] = Some(Builder_new(Uid, now))]
    /\ anchor' = [anchor EXCEPT ![w] = Some(now)]
    /\ backflow' = [backflow EXCEPT ![w] = 0]
    /\ wpc' = [wpc EXCEPT ![w] = "while"]
    /\ UNCHANGED <<argVars, now, chan, senders, rxAlive, mainVars, iterations,
                   fp, sent, tested>>

\* `while backflow < args.max_backflow` is false: the Candidate is dropped
\* and the outer loop starts over.
Exhausted(w) ==
    /\ wpc[w] = "while"
    /\ ~(backflow[w] < args.max_backflow)
    /\ wpc' = [wpc EXCEPT ![w] = "anchor"]
    /\ UNCHANGED <<argVars, now, chan, senders, rxAlive, mainVars, builder,
                   backflow, iterations, fp, sent, tested, anchor>>

\* Mutant of Backflow: the channel holds the worker's Candidate itself, not a
\* clone, so a backflow shows in the Results this worker has queued.
Backflow_shared(w) ==
    /\ wpc[w] = "while"
    /\ backflow[w] < args.max_backflow
    /\ iterations[w] < MaxIter
    /\ builder' = [builder EXCEPT ![w] = Some(Builder_backflow(builder[w][1]))]
    /\ chan' = [i \in 1..Len(chan) |->
                  IF chan[i].builder = builder[w][1]
                  THEN [chan[i] EXCEPT !.builder = Builder_backflow(builder[w][1])]
                  ELSE chan[i]]
    /\ wpc' = [wpc EXCEPT ![w] = "gen"]
    /\ UNCHANGED <<argVars, now, senders, rxAlive, mainVars, backflow,
                   iterations, fp, sent, tested, anchor>>

\* Mutant of Backflow: the loop condition is backflow <= args.max_backflow.
Backflow_inclusive(w) ==
    /\ wpc[w] = "while"
    /\ backflow[w] <= args.max_backflow
    /\ iterations[w] < MaxIter
    /\ builder' = [builder EXCEPT ![w] = Some(Builder_backflow(builder[w][1]))]
    /\ wpc' = [wpc EXCEPT ![w] = "gen"]
    /\ UNCHANGED <<argVars, now, chan, senders, rxAlive, mainVars, backflow,
                   iterations, fp, sent, tested, anchor>>

\* The while condition holds and builder.backflow() runs.
Backflow(w) ==
    /\ wpc[w] = "while"
    /\ backflow[w] < args.max_backflow
    /\ iterations[w] < MaxIter
    /\ builder' = [builder EXCEPT ![w] = Some(Builder_backflow(builder[w][1]))]
    /\ wpc' = [wpc EXCEPT ![w] = "gen"]
    /\ UNCHANGED <<argVars, now, chan, senders, rxAlive, mainVars, backflow,
                   iterations, fp, sent, tested, anchor>>

\* builder.gen()? succeeds with some freshly generated key.
GenOk(w) ==
    /\ wpc[w] = "gen"
    /\ \E bytes \in KeyFingerprints :
         builder' = [builder EXCEPT ![w] = Some(Builder_gen(builder[w][1], bytes))]
    /\ wpc' = [wpc EXCEPT ![w] = "test"]
    /\ UNCHANGED <<argVars, now, chan, senders, rxAlive, mainVars, backflow,
                   iterations, fp, sent, tested, anchor>>

\* Mutant of GenErr: the failure is escalated and stops every worker.
GenErr_escalated(w) ==
    /\ wpc[w] = "gen"
    /\ builder' = [builder EXCEPT ![w] = Some(Builder_gen_err(builder[w][1]))]
    /\ wpc' = [v \in Workers |->
                 IF wpc[v] = "unspawned" THEN wpc[v] ELSE "failed"]
    /\ senders' = 1
    /\ UNCHANGED <<argVars, now, chan, rxAlive, mainVars, backflow,
                   iterations, fp, sent, tested, anchor>>

\* builder.gen()? fails: the error leaves the closure.
GenErr(w) ==
    /\ wpc[w] = "gen"
    /\ builder' = [builder EXCEPT ![w] = Some(Builder_gen_err(builder[w][1]))]
    /\ Fail(w)
    /\ UNCHANGED <<argVars, now, chan, rxAlive, mainVars, backflow,
                   iterations, fp, sent, tested, anchor>>

\* fp = builder.fingerprint()?; if fp.ends_with(&suffix).
Test(w) ==
    /\ wpc[w] = "test"
    /\ LET f == Builder_fingerprint(builder[w][1])
       IN  IF f.ok
           THEN /\ fp' = [fp EXCEPT ![w] = Some(f.val)]
                /\ tested' = [tested EXCEPT ![w] = @ + 1]
                /\ wpc' = [wpc EXCEPT ![w] =
                              IF ends_with(f.val, suffix) THEN "send" ELSE "incr"]
                /\ UNCHANGED senders
           ELSE /\ Fail(w)
                /\ UNCHANGED <<fp, tested>>
    /\ UNCHANGED <<argVars, now, chan, rxAlive, mainVars, builder, backflow,
                   iterations, sent, anchor>>

\* The Result a worker sends: a clone of its builder and its iterations.
Message(w) == [builder |-> builder[w][1], iterations |-> iterations[w]]

\* Mutant of Send: the result of send is ignored, so the worker goes on
\* when the Receiver is gone.
Send_unchecked(w) ==
    /\ wpc[w] = "send"
    /\ IF rxAlive
       THEN /\ chan' = Append(chan, [builder |-> builder[w][1],
                                     iterations |-> iterations[w]])
            /\ sent' = Append(sent, [builder |-> builder[w][1],
                                     iterations |-> iterations[w]])
       ELSE UNCHANGED <<chan, sent>>
    /\ wpc' = [wpc EXCEPT ![w] = "incr"]
    /\ UNCHANGED <<argVars, now, senders, rxAlive, mainVars, builder, backflow,
                   iterations, fp, tested, anchor>>

\* Mutant of Send: a channel of capacity one, where send waits for room.
Send_bounded(w) ==
    /\ wpc[w] = "send"
    /\ chan = <<>>
    /\ IF rxAlive
       THEN /\ chan' = Append(chan, [builder |-> builder[w][1],
                                     iterations |-> iterations[w]])
            /\ sent' = Append(sent, [builder |-> builder[w][1],
                                     iterations |-> iterations[w]])
            /\ wpc' = [wpc EXCEPT ![w] = "incr"]
            /\ UNCHANGED senders
       ELSE /\ wpc' = [wpc EXCEPT ![w] = "failed"]
            /\ senders' = senders - 1
            /\ UNCHANGED <<chan, sent>>
    /\ UNCHANGED <<argVars, now, rxAlive, mainVars, builder, backflow,
                   iterations, fp, tested, anchor>>

\* Mutant of Send: the Result is dropped on the way and never queued.
Send_lossy(w) ==
    /\ wpc[w] = "send"
    /\ wpc' = [wpc EXCEPT ![w] = "incr"]
    /\ UNCHANGED <<argVars, now, chan, sent, senders, rxAlive, mainVars,
                   builder, backflow, iterations, fp, tested, anchor>>

\* sender.send((builder.clone(), iterations))?: queued without blocking, or
\* an error once the Receiver is gone.
Send(w) ==
    /\ wpc[w] = "send"
    /\ IF rxAlive
       THEN /\ chan' = Append(chan, Message(w))
            /\ sent' = Append(sent, Message(w))
            /\ wpc' = [wpc EXCEPT ![w] = "incr"]
            /\ UNCHANGED senders
       ELSE /\ Fail(w)
            /\ UNCHANGED <<chan, sent>>
    /\ UNCHANGED <<argVars, now, rxAlive, mainVars, builder, backflow,
                   iterations, fp, tested, anchor>>

\* backflow += 1; iterations += 1.
Incr(w) ==
    /\ wpc[w] = "incr"
    /\ backflow' = [backflow EXCEPT ![w] = @ + 1]
    /\ iterations' = [iterations EXCEPT ![w] = @ + 1]
    /\ wpc' = [wpc EXCEPT ![w] = "while"]
    /\ UNCHANGED <<argVars, now, chan, senders, rxAlive, mainVars, builder,
                   fp, sent, tested, anchor>>

\* ------------------------------------------------------------- system
Next ==
    \/ Tick
    \/ Spawn
    \/ SpawnDone
    \/ Recv
    \/ Report
    \/ Finish
    \/ Exit
    \/ \E w \in Workers : Anchor(w)
    \/ \E w \in Workers : Exhausted(w)
    \/ \E w \in Workers : Backflow(w)
    \/ \E w \in Workers : GenOk(w)
    \/ \E w \in Workers : GenErr(w)
    \/ \E w \in Workers : Test(w)
    \/ \E w \in Workers : Send(w)
    \/ \E w \in Workers : Incr(w)

Spec == Init /\ [][Next]_vars

\* The steps of the main thread and of worker w's thread.
MainStep == Spawn \/ SpawnDone \/ Recv \/ Report \/ Finish \/ Exit
WorkerStep(w) ==
    \/ Anchor(w) \/ Exhausted(w) \/ Backflow(w) \/ GenOk(w) \/ GenErr(w)
    \/ Test(w) \/ Send(w) \/ Incr(w)

\* The runs with a suffix of one character: a generated key may match it or
\* not.
FairInit == Init /\ Len(args.suffix) = 1

\* Every thread is an operating-system thread (std::thread::spawn) and is
\* scheduled again and again while it can take a step.
FairSpec ==
    /\ FairInit
    /\ [][Next]_vars
    /\ WF_vars(MainStep)
    /\ \A w \in Workers : WF_vars(WorkerStep(w))

\* ------------------------------------------------------------- properties
\* Positions of a worker that is running its loop.
Running == {"anchor", "while", "gen", "test", "send", "incr"}

\* Worker w takes a step of its own.
Steps(w) == wpc'[w] # wpc[w]

\* Everything worker w owns.
Local(w) == <<wpc[w], builder[w], backflow[w], iterations[w], fp[w],
              tested[w], anchor[w]>>

\* t is a suffix of s: s is some prefix of itself followed by t.
IsSuffixOf(t, s) == \E n \in 0..Len(s) : s = SubSeq(s, 1, n) \o t

\* The lowercase form of a suffix argument, by the table of hex letters.
UpperLetters == <<"A", "B", "C", "D", "E", "F">>
LowerLetters == <<"a", "b", "c", "d", "e", "f">>
LowercaseForm(s) ==
    [i \in 1..Len(s) |->
        IF \E j \in 1..6 : UpperLetters[j] = s[i]
        THEN LowerLetters[CHOOSE j \in 1..6 : UpperLetters[j] = s[i]]
        ELSE s[i]]

\* The hex text of the fingerprint of the key a Candidate carries.
FingerprintOf(b) == encode_hex(b.k[1].fingerprint)

\* A Candidate carries a key whose fingerprint ends with the lowercased
\* target suffix.
IsMatch(b) ==
    /\ b.k # None
    /\ IsSuffixOf(LowercaseForm(args.suffix), FingerprintOf(b))

\* C1: every Candidate put on the result channel, the Candidate main
\* receives and the fingerprint main prints satisfy the Match Predicate:
\* the fingerprint of the carried key ends with the lowercased suffix.
C1_ReturnedCandidateMatches ==
    /\ \A i \in 1..Len(sent) : IsMatch(sent[i].builder)
    /\ \A i \in 1..Len(chan) : IsMatch(chan[i].builder)
    /\ result # None => IsMatch(result[1])
    /\ shownFp # None =>
         /\ shownFp[1] = FingerprintOf(result[1])
         /\ IsSuffixOf(LowercaseForm(args.suffix), shownFp[1])

\* C1 witness: two workers, a non-empty mixed-case suffix, and main has
\* printed the fingerprint of the Candidate it received.
C1_Witness ==
    /\ args.threads = 2
    /\ args.suffix = <<"a", "B">>
    /\ cpc = "done"
    /\ shownFp = Some(<<"a", "b">>)

\* C2: main consumes exactly one Result and it is the first one sent: the
\* received Candidate and count are those of the first Result ever sent, and
\* every later Result stays in the channel, in order, unconsumed.
C2_FirstResultOnly ==
    /\ result = None => (chan = sent /\ rIterations = None)
    /\ result # None =>
         /\ Len(sent) >= 1
         /\ result[1] = sent[1].builder
         /\ rIterations = Some(sent[1].iterations)
         /\ chan = Tail(sent)

\* C2 witness: main has returned with the first Result while a later,
\* different Result sits unconsumed in the channel.
C2_Witness ==
    /\ cpc = "done"
    /\ Len(sent) = 2
    /\ sent[2] # sent[1]
    /\ chan = <<sent[2]>>
    /\ result = Some(sent[1].builder)

\* C3 (as claimed): with thread_count = 0 main does not sit blocked in
\* recv: past the spawn loop it has ended with an error, or its recv ends
\* at once because no Sender is left.
C3_ZeroThreadsFails ==
    args.threads = 0 =>
        \/ cpc \in {"spawn", "err"}
        \/ (cpc = "recv" /\ chan = <<>> /\ senders = 0)

\* C4 (as claimed): when every spawned worker has terminated and nothing was
\* ever sent, main's recv can end (with the channel-closed error).
C4_ClosedChannelEndsRecv ==
    ( /\ args.threads >= 1
      /\ cpc = "recv"
      /\ sent = <<>>
      /\ \A w \in 1..args.threads : wpc[w] = "failed" )
    => senders = 0

\* A Candidate's key was generated with the Candidate's current timestamp.
KeyIsCurrent(b) ==
    /\ b.k # None
    /\ b.k[1].created_at = b.ct
    /\ b.kb_created_at = Some(b.ct)

\* C5: whenever a worker is about to compute or test the fingerprint or to
\* clone its Candidate into the channel, and for every Candidate sent or
\* received, the key was generated with the current creation_timestamp.
C5_KeyMatchesTimestamp ==
    /\ \A w \in Workers :
         wpc[w] \in {"test", "send"} => KeyIsCurrent(builder[w][1])
    /\ \A i \in 1..Len(sent) : KeyIsCurrent(sent[i].builder)
    /\ result # None => KeyIsCurrent(result[1])

\* C5 witness: a worker about to send in a later iteration of the same
\* Candidate, whose previous key was stale after the backflow.
C5_Witness ==
    \E w \in Workers :
        /\ wpc[w] = "send"
        /\ backflow[w] = 1
        /\ KeyIsCurrent(builder[w][1])

\* C6: the worker's match test goes to the send exactly when the lowercase
\* hex fingerprint ends with the lowercase form of the suffix as typed; an
\* empty suffix always matches, a suffix longer than the fingerprint never
\* does, and the outcome is the one the lowercase form of the suffix gives.
C6_MatchIffSuffix ==
    [][\A w \in Workers :
         (wpc[w] = "test" /\ wpc'[w] \in {"send", "incr"}) =>
            LET f == fp'[w][1]
                hit == wpc'[w] = "send"
            IN  /\ f = FingerprintOf(builder[w][1])
                /\ f = LowercaseForm(f)
                /\ hit <=> IsSuffixOf(LowercaseForm(args.suffix), f)
                /\ args.suffix = <<>> => hit
                /\ Len(args.suffix) > Len(f) => ~hit
                /\ hit <=> ends_with(f, to_lowercase(LowercaseForm(args.suffix)))
      ]_vars

\* C6 witness: a suffix typed in upper case has matched a fingerprint.
C6_Witness ==
    \E w \in Workers :
        /\ wpc[w] = "send"
        /\ args.suffix = <<"B">>
        /\ fp[w] = Some(<<"a", "b">>)

\* Backflows a worker has applied to its current Candidate.
BackflowsDone(w) ==
    backflow[w] + (IF wpc[w] \in {"gen", "test", "send", "incr"} THEN 1 ELSE 0)

\* C7: the backflow step moves creation_timestamp back by exactly one second
\* and changes nothing else (key, key parameters, uid, every other variable);
\* after k backflows a running worker's timestamp is k seconds before the
\* anchor.
C7_BackflowOneSecond ==
    /\ [][\A w \in Workers :
            (wpc[w] = "while" /\ wpc'[w] = "gen") =>
               /\ builder'[w][1].ct = builder[w][1].ct - 1
               /\ builder'[w][1].k = builder[w][1].k
               /\ builder'[w][1].kb_created_at = builder[w][1].kb_created_at
               /\ builder'[w][1].uid = builder[w][1].uid
               /\ \A v \in Workers \ {w} : builder'[v] = builder[v]
               /\ UNCHANGED <<argVars, now, chan, senders, rxAlive, mainVars,
                              backflow, iterations, fp, sent, tested, anchor>>
        ]_vars
    /\ [](\A w \in Workers :
            (builder[w] # None /\ wpc[w] \in Running) =>
               builder[w][1].ct = anchor[w][1] - BackflowsDone(w))

\* C7 witness: the second backflow of one Candidate has just run: the
\* timestamp is two seconds before the anchor and the key of the first
\* iteration is still in place, one second newer than the timestamp.
C7_Witness ==
    \E w \in Workers :
        /\ wpc[w] = "gen"
        /\ backflow[w] = 1
        /\ builder[w][1].k # None
        /\ builder[w][1].ct = anchor[w][1] - 2
        /\ builder[w][1].k[1].created_at = builder[w][1].ct + 1

\* C8: a worker's Candidate is never more than max_backflow seconds before
\* its anchor, nor after it; no key is generated further back; and at a
\* drift of max_backflow the loop condition is false, so the Candidate is
\* dropped for a new one.
C8_DriftBounded ==
    \A w \in Workers :
        builder[w] # None =>
            LET b == builder[w][1]
                drift == anchor[w][1] - b.ct
            IN  /\ 0 <= drift
                /\ drift <= args.max_backflow
                /\ b.k # None =>
                     anchor[w][1] - b.k[1].created_at <= args.max_backflow
                /\ (wpc[w] = "while" /\ drift = args.max_backflow) =>
                     ~(backflow[w] < args.max_backflow)

\* C8 witness: a worker has used up a budget of one backflow, re-anchored at
\* a later time and tested a second Candidate at the full drift.
C8_Witness ==
    \E w \in Workers :
        /\ args.max_backflow = 1
        /\ anchor[w] = Some(StartTime + 1)
        /\ tested[w] = 2
        /\ builder[w][1].ct = StartTime

\* C9: the number main prints is the count carried by the one Result it
\* received (the first sent) times thread_count.
C9_TotalIsCountTimesThreads ==
    total # None =>
        /\ rIterations # None
        /\ rIterations[1] = sent[1].iterations
        /\ total[1] = sent[1].iterations * args.threads

\* C9 witness: main has printed 2 = 1 * 2 while the worker that did not
\* report is at another count.
C9_Witness ==
    /\ args.threads = 2
    /\ total = Some(2)
    /\ \E w \in Workers : iterations[w] = 0 /\ tested[w] = 0

\* C10 (as claimed): the count a worker sends is positive and is the number
\* of candidates it has tested, the matching one included.
C10_CountIncludesMatch ==
    [][\A w \in Workers :
         (wpc[w] = "send" /\ wpc'[w] = "incr") =>
            /\ sent' = Append(sent, sent'[Len(sent')])
            /\ sent'[Len(sent')].iterations >= 1
            /\ sent'[Len(sent')].iterations = tested[w]
      ]_vars

\* C11: a failed builder.gen() ends that worker alone: the step changes no
\* sibling's state, nothing in the channel and nothing of main; the failed
\* worker never moves or sends again; and with a worker failed, main's recv
\* still takes a Result that is in the channel.
C11_FailureIsLocal ==
    /\ [][\A w \in Workers :
            (wpc[w] = "gen" /\ wpc'[w] = "failed") =>
               /\ \A v \in Workers \ {w} : Local(v)' = Local(v)
               /\ UNCHANGED <<argVars, chan, sent, rxAlive, mainVars>>
               /\ senders' = senders - 1
        ]_vars
    /\ [][\A w \in Workers :
            wpc[w] = "failed" =>
               /\ Local(w)' = Local(w)
               /\ sent' # sent =>
                    \E v \in Workers \ {w} : wpc[v] = "send" /\ Steps(v)
        ]_vars
    /\ []((cpc = "recv" /\ chan # <<>>) => ENABLED Recv)

\* C11 witness: worker 1 failed in its first gen and never tested anything;
\* main has returned the match that worker 2 reported.
C11_Witness ==
    /\ args.threads = 2
    /\ wpc[1] = "failed"
    /\ tested[1] = 0
    /\ wpc[2] \in Running
    /\ cpc = "done"
    /\ result = Some(sent[1].builder)

\* main has received a Result and left its body.
Returned == result # None /\ cpc \in {"done", "err", "panicked", "exited"}

\* C12: under fair scheduling, once some worker holds a generated Candidate
\* whose fingerprint matches (it is about to test it or about to send it),
\* main eventually receives a Result and returns; and the first Result sent
\* is the one main eventually holds.
C12_MatchEventuallyReturned ==
    /\ (\E w \in Workers :
           \/ wpc[w] = "send"
           \/ (wpc[w] = "test" /\ IsMatch(builder[w][1])))
       ~> Returned
    /\ (sent # <<>>) ~> (result # None /\ result[1] = sent[1].builder)

\* C12 witness: of two workers only worker 2 has tested anything, and main
\* has returned with the first Result sent.
C12_Witness ==
    /\ args.threads = 2
    /\ Returned
    /\ tested[1] = 0
    /\ tested[2] >= 1
    /\ result = Some(sent[1].builder)

\* C13: fingerprint() of a Candidate without key material is an error value
\* and of one with key material is Ok; in the worker loop and in main it is
\* only ever called on a Candidate that has key material, so no worker ends
\* at the fingerprint call.
C13_FingerprintErrUnreachable ==
    /\ [](\A w \in Workers :
            builder[w] # None =>
               (Builder_fingerprint(builder[w][1]).ok <=>
                  builder[w][1].k # None))
    /\ [](\A w \in Workers :
            wpc[w] = "test" => builder[w][1].k # None)
    /\ [](cpc = "report" => result[1].k # None)
    /\ [][\A w \in Workers : wpc[w] = "test" => wpc'[w] # "failed"]_vars

\* C13 witness: one worker holds a fresh Candidate with no key, for which
\* fingerprint() is the error, while the other is at its fingerprint call
\* with a key generated in this iteration.
C13_Witness ==
    /\ wpc[1] = "while"
    /\ builder[1][1].k = None
    /\ ~Builder_fingerprint(builder[1][1]).ok
    /\ wpc[2] = "test"
    /\ KeyIsCurrent(builder[2][1])

\* C14 (as claimed): armored() of a Candidate without key material returns
\* an error value instead of aborting, and every Candidate main exports
\* carries key material, so main never aborts in the export.
C14_ExportFailsWithErr ==
    /\ \A w \in Workers :
         (builder[w] # None /\ builder[w][1].k = None) =>
            \A signed \in BOOLEAN :
               Builder_armored(builder[w][1], signed) = "err"
    /\ cpc = "export" => result[1].k # None
    /\ cpc # "panicked"

\* C15: while the Receiver exists a worker at its send can always take the
\* step, whatever main has or has not received; the step queues the Result
\* and the worker goes on to the increment and the next loop test, which are
\* always enabled too.
C15_SendNeverBlocks ==
    /\ [](\A w \in Workers :
            /\ (wpc[w] = "send" /\ rxAlive) => ENABLED Send(w)
            /\ wpc[w] = "incr" => ENABLED Incr(w))
    /\ [][\A w \in Workers :
            (wpc[w] = "send" /\ rxAlive /\ Steps(w)) =>
               /\ wpc'[w] = "incr"
               /\ chan' = Append(chan, Message(w))
        ]_vars
    /\ [][\A w \in Workers :
            (wpc[w] = "incr" /\ rxAlive /\ Steps(w)) => wpc'[w] = "while"
        ]_vars

\* C15 witness: the only worker has sent two Results, both still in the
\* channel, main has received nothing, and the worker is back in its loop.
C15_Witness ==
    /\ args.threads = 1
    /\ result = None
    /\ Len(chan) = 2
    /\ chan[1].iterations = 0
    /\ chan[2].iterations = 1
    /\ wpc[1] = "while"

C17_ReturnsWithoutWaiting ==
    /\ [](/\ (cpc = "recv" /\ chan # <<>>) => ENABLED Recv
          /\ cpc = "report" => ENABLED Report
          /\ cpc = "export" => ENABLED Finish)
    /\ [][(cpc' # cpc /\ cpc' # "exited") =>
            \A w \in Workers : Local(w)' = Local(w)
        ]_vars
    /\ [][(cpc = "export" /\ cpc' # cpc) =>
            \A w \in 1..args.threads :
               wpc'[w] = wpc[w] /\ wpc'[w] \in Running \cup {"failed"}
        ]_vars

\* C17 witness: main has returned while one worker is in the middle of an
\* iteration and the other is about to send.
C17_Witness ==
    /\ cpc = "done"
    /\ args.threads = 2
    /\ wpc[1] = "gen"
    /\ wpc[2] = "send"

\* C18: the channel always holds, unchanged and in order, the Results as
\* they were at their send, less those main has taken; a step changes the
\* channel only by queuing one Result at the end or taking the first; what
\* main receives is the first Result as it was sent, a matching Candidate
\* with its key current; and a step that changes a worker's Candidate is
\* that worker's own step and leaves every other worker's state alone.
C18_ResultIsIndependentCopy ==
    /\ [](/\ Len(chan) <= Len(sent)
          /\ chan = SubSeq(sent, Len(sent) - Len(chan) + 1, Len(sent))
          /\ result # None =>
               /\ result[1] = sent[1].builder
               /\ rIterations = Some(sent[1].iterations)
               /\ IsMatch(result[1])
               /\ KeyIsCurrent(result[1]))
    /\ [][\/ chan' = chan
          \/ \E w \in Workers :
                wpc[w] = "send" /\ Steps(w) /\ chan' = Append(chan, Message(w))
          \/ (cpc = "recv" /\ chan # <<>> /\ chan' = Tail(chan))
        ]_vars
    /\ [][\A w \in Workers :
            builder'[w] # builder[w] =>
               /\ Steps(w)
               /\ \A v \in Workers \ {w} : Local(v)' = Local(v)
        ]_vars

\* C18 witness: a worker's Result is still in the channel while the worker
\* has gone on and backflowed its own Candidate, which now differs from the
\* queued copy.
C18_Witness ==
    /\ args.threads = 1
    /\ Len(chan) = 1
    /\ wpc[1] = "gen"
    /\ backflow[1] = 1
    /\ chan[1].builder.ct = builder[1][1].ct + 1
    /\ chan[1].builder.k = builder[1][1].k

\* C19: with max_backflow = 0 every spawned worker only alternates between
\* building a fresh Candidate and finding the while condition false, both
\* always possible: it never generates a key, tests, counts or sends, so the
\* channel stays empty and main stays at (or before) a recv that cannot end.
C19_ZeroBudgetNeverSearches ==
    args.max_backflow = 0 =>
        /\ \A w \in Workers :
             /\ wpc[w] \in {"unspawned", "anchor", "while"}
             /\ wpc[w] = "anchor" => ENABLED Anchor(w)
             /\ wpc[w] = "while" => (ENABLED Exhausted(w) /\ ~ENABLED Backflow(w))
             /\ builder[w] # None => builder[w][1].k = None
             /\ iterations[w] = 0
             /\ tested[w] = 0
             /\ fp[w] = None
        /\ sent = <<>>
        /\ chan = <<>>
        /\ result = None
        /\ cpc \in {"spawn", "recv"}
        /\ cpc = "recv" => ~ENABLED Recv

\* C19 witness: with max_backflow = 0 and two workers, main is blocked in
\* recv; worker 1 has dropped a Candidate anchored at the start and is about
\* to build the next, worker 2 holds one anchored a second later.
C19_Witness ==
    /\ args.max_backflow = 0
    /\ args.threads = 2
    /\ cpc = "recv"
    /\ wpc[1] = "anchor"
    /\ anchor[1] = Some(StartTime)
    /\ wpc[2] = "while"
    /\ anchor[2] = Some(StartTime + 1)

\* C20 (as claimed): a running worker stops only at a failed gen or at a
\* send after the Receiver was dropped; nothing else ever stops it.
C20_OnlyTwoWaysToStop ==
    [][\A w \in Workers :
         (wpc[w] \in Running /\ wpc'[w] \notin Running) =>
            \/ wpc[w] = "gen"
            \/ (wpc[w] = "send" /\ ~rxAlive)
      ]_vars

\* C20 (amended): a running worker stops only at a failed gen, at a send
\* after the Receiver was dropped, or when the process exits after main has
\* left its body; a worker that comes to a send with the Receiver dropped
\* queues nothing and ends there; while main has not left its body no
\* worker is stopped other than by its own failed gen.
C20_StopsByErrorOrExit ==
    /\ [][\A w \in Workers :
            (wpc[w] \in Running /\ wpc'[w] \notin Running) =>
               \/ (wpc[w] = "gen" /\ wpc'[w] = "failed")
               \/ (wpc[w] = "send" /\ ~rxAlive /\ wpc'[w] = "failed")
               \/ /\ cpc \in {"done", "err", "panicked"}
                  /\ cpc' = "exited"
                  /\ wpc'[w] = "killed"
        ]_vars
    /\ [][\A w \in Workers :
            (wpc[w] = "send" /\ ~rxAlive /\ Steps(w)) =>
               /\ wpc'[w] \in {"failed", "killed"}
               /\ chan' = chan
               /\ sent' = sent
        ]_vars
    /\ [][\A w \in Workers :
            (rxAlive /\ wpc[w] \in Running /\ wpc'[w] \notin Running) =>
               (wpc[w] = "gen" /\ wpc'[w] = "failed")
        ]_vars

\* C20 witness: main has returned and dropped the Receiver; one worker then
\* found a match and ended at its send (it has tested one candidate more
\* than it counted), the other is still searching.
C20_Witness ==
    /\ args.threads = 2
    /\ cpc = "done"
    /\ ~rxAlive
    /\ wpc[1] = "failed"
    /\ tested[1] = iterations[1] + 1
    /\ wpc[2] \in Running

====
